---- MODULE Spec2Model ----
(***************************************************************************)
(* Model of analysis/analyze.py: LoopPrediction (a prediction record),     *)
(* LoopPredictionSet (the ordered, id-keyed collection of records) and     *)
(* extract_analysis_data (the per-case statistics and the report files).   *)
(*                                                                         *)
(* Python objects live in a heap: a record is reached through a reference, *)
(* so that the list, the dict and a slice share the same objects.          *)
(* Python values are tagged (None, number, string, coordinate matrix) and  *)
(* compared as CPython 2 compares them.  Real numbers are integers in      *)
(* units of 0.1 (the threshold 1.0 is 10).                                 *)
(***************************************************************************)
EXTENDS Integers, Sequences, FiniteSets, TLC

VARIABLES
    heap,                 \* reference -> LoopPrediction object
    loop_predictions,     \* self.loop_predictions: list of references
    loop_prediction_map,  \* self.loop_prediction_map: id -> reference
    sub,                  \* the set a slice returned (the top-X set of a case)
    pre,                  \* the state on entry to the last call
    ret                   \* the last call: operation, arguments, exception, value

vars == <<heap, loop_predictions, loop_prediction_map, sub, pre, ret>>

---------------------------------------------------------------------------
(* Bounds *)

MaxRecs == 2       \* Spec: live LoopPrediction objects
MaxId == 2         \* Spec: ids are 1..MaxId
MaxSortLen == 3    \* SpecSort: length of the list, and ids are 1..MaxSortLen
MaxCmpId == 3      \* SpecCmp: ids are 1..MaxCmpId
MaxFracLen == 4    \* SpecFrac: length of the list
MaxRmsdLen == 3    \* SpecRmsd: length of the list

---------------------------------------------------------------------------
(* Python values *)

None == [t |-> "None", v |-> 0]
Num(n) == [t |-> "num", v |-> n]
Str(n) == [t |-> "str", v |-> n]     \* Str(0) is the empty string ''
Mat(n) == [t |-> "mat", v |-> n]     \* a coordinate matrix (pandas dataframe)

\* bool(x) of a value used as a condition.
Truthy(x) ==
    CASE x.t = "None" -> FALSE
      [] x.t = "num" -> x.v # 0
      [] x.t = "str" -> x.v # 0
      [] OTHER -> TRUE

\* isinstance(x, int) or isinstance(x, float)
IsNumeric(x) == x.t = "num"

\* CPython 2 orders values of different types: None first, then numbers,
\* then the other types by type name.
TypeRank(x) ==
    CASE x.t = "None" -> 0
      [] x.t = "num" -> 1
      [] x.t = "mat" -> 2
      [] OTHER -> 3

Py2Lt(x, y) ==
    IF TypeRank(x) # TypeRank(y) THEN TypeRank(x) < TypeRank(y)
    ELSE IF x.t = "None" THEN FALSE
    ELSE x.v < y.v

Py2Le(x, y) == Py2Lt(x, y) \/ x = y

\* os.path.exists: the one artifact on disk is the path Str(1).
PathExists(p) == p = Str(1)

\* Exceptions
NoExc == "none"
AssertionError == "AssertionError"
KeyError == "KeyError"
MissingRmsd == "Exception"
ZeroDivisionError == "ZeroDivisionError"

EmptyMap == [k \in {} |-> 0]

Min(a, b) == IF a < b THEN a ELSE b
Max(a, b) == IF a < b THEN b ELSE a

---------------------------------------------------------------------------
(* LoopPrediction *)

\* LoopPrediction._check_types: TRUE when no assertion fails.
check_types(lp) ==
    /\ IsNumeric(lp.score)
    /\ (Truthy(lp.rmsd) => IsNumeric(lp.rmsd))
    /\ (Truthy(lp.pdb_path) => PathExists(lp.pdb_path))

\* LoopPrediction.__init__: the object built, and whether _check_types raised.
LoopPrediction(id, score, pdb_id, rmsd, pdb_path, pdb_loop_residue_matrix) ==
    LET lp == [id |-> id, score |-> score, pdb_id |-> pdb_id, rmsd |-> rmsd,
               pdb_path |-> pdb_path,
               pdb_loop_residue_matrix |-> pdb_loop_residue_matrix]
    IN [exc |-> IF check_types(lp) THEN NoExc ELSE AssertionError, lp |-> lp]

\* Result of a comparator whose assertion failed.
CmpRaise == 2

\* sort_by_score as it would be without the final comparison of the ids.
sort_by_score_no_id(a, b) ==
    IF a.id = b.id \/ ~check_types(a) \/ ~check_types(b) THEN CmpRaise
    ELSE IF a.score # b.score THEN (IF Py2Lt(a.score, b.score) THEN -1 ELSE 1)
    ELSE IF a.rmsd # b.rmsd THEN (IF Py2Lt(a.rmsd, b.rmsd) THEN -1 ELSE 1)
    ELSE 1

\* LoopPrediction.sort_by_score(a, b): -1, 1, or CmpRaise.
sort_by_score(a, b) ==
    IF a.id = b.id \/ ~check_types(a) \/ ~check_types(b) THEN CmpRaise
    ELSE IF a.score # b.score THEN (IF Py2Lt(a.score, b.score) THEN -1 ELSE 1)
    ELSE IF a.rmsd # b.rmsd THEN (IF Py2Lt(a.rmsd, b.rmsd) THEN -1 ELSE 1)
    ELSE (IF a.id < b.id THEN -1 ELSE 1)

\* sort_by_rmsd as it would be with the score compared the wrong way round.
sort_by_rmsd_score_desc(a, b) ==
    IF a.id = b.id \/ ~check_types(a) \/ ~check_types(b) THEN CmpRaise
    ELSE IF a.rmsd # b.rmsd THEN (IF Py2Lt(a.rmsd, b.rmsd) THEN -1 ELSE 1)
    ELSE IF a.score # b.score THEN (IF Py2Lt(a.score, b.score) THEN 1 ELSE -1)
    ELSE (IF a.id < b.id THEN -1 ELSE 1)

\* LoopPrediction.sort_by_rmsd(a, b): -1, 1, or CmpRaise.
sort_by_rmsd(a, b) ==
    IF a.id = b.id \/ ~check_types(a) \/ ~check_types(b) THEN CmpRaise
    ELSE IF a.rmsd # b.rmsd THEN (IF Py2Lt(a.rmsd, b.rmsd) THEN -1 ELSE 1)
    ELSE IF a.score # b.score THEN (IF Py2Lt(a.score, b.score) THEN -1 ELSE 1)
    ELSE (IF a.id < b.id THEN -1 ELSE 1)

---------------------------------------------------------------------------
(* Heap and dict helpers *)

Refs == 1..(MaxRecs + 1)

Range(s) == {s[i] : i \in DOMAIN s}

\* A fresh object gets the smallest reference not in use.
NewRef(h) == CHOOSE r \in Refs : r \notin DOMAIN h /\ \A q \in Refs : q < r => q \in DOMAIN h

\* d[k] = v
DictSet(d, k, v) == [x \in DOMAIN d \cup {k} |-> IF x = k THEN v ELSE d[x]]

\* del d[k]
DictDel(d, k) == [x \in DOMAIN d \ {k} |-> d[x]]

\* Objects no list or dict refers to any more are collected.
Collect(h, lst, map, s) ==
    LET live == Range(lst) \cup Range(map) \cup Range(s.loop_predictions)
                \cup Range(s.loop_prediction_map)
    IN [r \in DOMAIN h \cap live |-> h[r]]

\* LoopPredictionSet.__init__
EmptySet == [loop_predictions |-> <<>>, loop_prediction_map |-> EmptyMap]

Snapshot == [heap |-> heap, loop_predictions |-> loop_predictions,
             loop_prediction_map |-> loop_prediction_map]

Call(op, args, exc, val) == [op |-> op, args |-> args, exc |-> exc, val |-> val]

---------------------------------------------------------------------------
(* LoopPredictionSet.add *)

\* `id == lp` for an id and a LoopPrediction object: the class defines no
\* __eq__, so the comparison is by identity and an id equals no object.
IdEqualsObject(id, r) == FALSE

\* `id in self.loop_predictions`: the list holds LoopPrediction objects.
IdInList(id, lst) == \E i \in DOMAIN lst : IdEqualsObject(id, lst[i])

Add(id, score, rmsd, matrix) ==
    /\ Cardinality(DOMAIN heap) < MaxRecs
    /\ pre' = Snapshot
    /\ LET made == LoopPrediction(id, score, None, rmsd, None, matrix)
           r == NewRef(heap)
       IN IF IdInList(id, loop_predictions) \/ made.exc # NoExc
          THEN /\ ret' = Call("add", <<id>>, AssertionError, 0)
               /\ heap' = Collect(heap, loop_predictions, loop_prediction_map, EmptySet)
               /\ UNCHANGED <<loop_predictions, loop_prediction_map>>
          ELSE /\ heap' = Collect([x \in DOMAIN heap \cup {r} |->
                                      IF x = r THEN made.lp ELSE heap[x]],
                                  Append(loop_predictions, r),
                                  DictSet(loop_prediction_map, id, r), EmptySet)
               /\ loop_predictions' = Append(loop_predictions, r)
               /\ loop_prediction_map' = DictSet(loop_prediction_map, id, r)
               /\ ret' = Call("add", <<id>>, NoExc, 0)
    /\ sub' = EmptySet

---------------------------------------------------------------------------
(* Python list slicing *)

\* slice.indices(n) for one bound: negative bounds count from the end, and
\* the bound is clipped to 0..n.
SliceBound(i, n) == IF i < 0 THEN Max(i + n, 0) ELSE Min(i, n)

\* lst[n:] and lst[:n]
PyFrom(lst, n) == SubSeq(lst, SliceBound(n, Len(lst)) + 1, Len(lst))
PyUpTo(lst, n) == SubSeq(lst, 1, SliceBound(n, Len(lst)))

---------------------------------------------------------------------------
(* LoopPredictionSet.truncate *)

\* for lp in lps_to_delete: del self.loop_prediction_map[lp.id]
\* The loop stops at the first id that is not a key (KeyError).
RECURSIVE DeleteIds(_, _, _)
DeleteIds(h, map, lps) ==
    IF lps = <<>> THEN [exc |-> NoExc, map |-> map]
    ELSE IF h[Head(lps)].id \notin DOMAIN map THEN [exc |-> KeyError, map |-> map]
    ELSE DeleteIds(h, DictDel(map, h[Head(lps)].id), Tail(lps))

\* sorted([lp.id for lp in lst]) == sorted(map.keys()): the keys of a dict are
\* distinct, so the lists agree when the ids are those keys, each once.
SameIds(h, lst, map) ==
    /\ {h[lst[i]].id : i \in DOMAIN lst} = DOMAIN map
    /\ \A i, j \in DOMAIN lst : h[lst[i]].id = h[lst[j]].id => i = j

\* truncate as it would be if the discarded ids stayed in the dict.
truncate_keeps_keys(h, lst, map, n) ==
    [exc |-> NoExc, loop_predictions |-> PyUpTo(lst, n), loop_prediction_map |-> map]

truncate(h, lst, map, n) ==
    LET del == DeleteIds(h, map, PyFrom(lst, n))
    IN IF del.exc # NoExc
       THEN [exc |-> del.exc, loop_predictions |-> lst, loop_prediction_map |-> del.map]
       ELSE [exc |-> IF SameIds(h, PyUpTo(lst, n), del.map) THEN NoExc
                     ELSE AssertionError,
             loop_predictions |-> PyUpTo(lst, n),
             loop_prediction_map |-> del.map]

Truncate(n) ==
    LET t == truncate(heap, loop_predictions, loop_prediction_map, n)
    IN /\ pre' = Snapshot
       /\ loop_predictions' = t.loop_predictions
       /\ loop_prediction_map' = t.loop_prediction_map
       /\ heap' = Collect(heap, t.loop_predictions, t.loop_prediction_map, EmptySet)
       /\ ret' = Call("truncate", <<n>>, t.exc, 0)
       /\ sub' = EmptySet

\* LoopPredictionSet.get: dict.get returns None for a missing key; here the
\* reference 0 stands for None.
get(map, id) == IF id \in DOMAIN map THEN map[id] ELSE 0

---------------------------------------------------------------------------
(* list.sort(cmp = ...) as CPython 2 runs it on a list of fewer than 64    *)
(* items: the leading run is found (and reversed when descending), then   *)
(* the other items are inserted by binary search.  A comparator that      *)
(* raises ends the sort with the list as the insertions so far left it.   *)

\* The cmp lambdas of LoopPredictionSet.sort_by_score / sort_by_rmsd.
Cmp(h, mode, x, y) ==
    IF mode = "score" THEN sort_by_score(h[x], h[y]) ELSE sort_by_rmsd(h[x], h[y])

Reverse(lst) == [i \in 1..Len(lst) |-> lst[Len(lst) + 1 - i]]

\* count_run, after its first comparison: lst[1..k] is a run.
RECURSIVE ExtendRun(_, _, _, _, _)
ExtendRun(h, mode, lst, k, desc) ==
    IF k = Len(lst) THEN [exc |-> NoExc, n |-> k, desc |-> desc]
    ELSE LET c == Cmp(h, mode, lst[k + 1], lst[k])
         IN IF c = CmpRaise THEN [exc |-> AssertionError, n |-> k, desc |-> desc]
            ELSE IF (c < 0) = desc THEN ExtendRun(h, mode, lst, k + 1, desc)
            ELSE [exc |-> NoExc, n |-> k, desc |-> desc]

CountRun(h, mode, lst) ==
    LET c == Cmp(h, mode, lst[2], lst[1])
    IN IF c = CmpRaise THEN [exc |-> AssertionError, n |-> 1, desc |-> FALSE]
       ELSE ExtendRun(h, mode, lst, 2, c < 0)

\* binarysort's search for the place of pivot in lst[l+1..r] (l, r zero-based).
RECURSIVE BinarySearch(_, _, _, _, _, _)
BinarySearch(h, mode, lst, pivot, l, r) ==
    IF l >= r THEN [exc |-> NoExc, l |-> l]
    ELSE LET p == l + ((r - l) \div 2)
             c == Cmp(h, mode, pivot, lst[p + 1])
         IN IF c = CmpRaise THEN [exc |-> AssertionError, l |-> l]
            ELSE IF c < 0 THEN BinarySearch(h, mode, lst, pivot, l, p)
            ELSE BinarySearch(h, mode, lst, pivot, p + 1, r)

\* binarysort: lst[1..start] is sorted; insert the items after it.
RECURSIVE BinarySort(_, _, _, _)
BinarySort(h, mode, lst, start) ==
    IF start >= Len(lst) THEN [exc |-> NoExc, lst |-> lst]
    ELSE LET pivot == lst[start + 1]
             bs == BinarySearch(h, mode, lst, pivot, 0, start)
         IN IF bs.exc # NoExc THEN [exc |-> bs.exc, lst |-> lst]
            ELSE BinarySort(h, mode,
                            SubSeq(lst, 1, bs.l) \o <<pivot>>
                              \o SubSeq(lst, bs.l + 1, start)
                              \o SubSeq(lst, start + 2, Len(lst)),
                            start + 1)

list_sort(h, mode, lst) ==
    IF Len(lst) < 2 THEN [exc |-> NoExc, lst |-> lst]
    ELSE LET run == CountRun(h, mode, lst)
         IN IF run.exc # NoExc THEN [exc |-> run.exc, lst |-> lst]
            ELSE BinarySort(h, mode,
                            IF run.desc
                            THEN Reverse(SubSeq(lst, 1, run.n))
                                   \o SubSeq(lst, run.n + 1, Len(lst))
                            ELSE lst,
                            run.n)

\* LoopPredictionSet.sort_by_score / sort_by_rmsd
Sort(mode) ==
    LET s == list_sort(heap, mode, loop_predictions)
    IN /\ pre' = Snapshot
       /\ loop_predictions' = s.lst
       /\ ret' = Call(mode, <<>>, s.exc, 0)
       /\ sub' = EmptySet
       /\ UNCHANGED <<heap, loop_prediction_map>>

---------------------------------------------------------------------------
(* LoopPredictionSet.from_list and __getitem__(slice) *)

RECURSIVE from_list_loop(_, _, _)
from_list_loop(h, lps, rest) ==
    IF rest = <<>> THEN [exc |-> NoExc, lps |-> lps]
    ELSE IF IdInList(h[Head(rest)].id, lps.loop_predictions)
    THEN [exc |-> AssertionError, lps |-> lps]
    ELSE from_list_loop(h,
            [loop_predictions |-> Append(lps.loop_predictions, Head(rest)),
             loop_prediction_map |->
                DictSet(lps.loop_prediction_map, h[Head(rest)].id, Head(rest))],
            Tail(rest))

from_list(h, lst) == from_list_loop(h, EmptySet, lst)

\* xrange(start, stop)
XRange(start, stop) == [k \in 1..Max(stop - start, 0) |-> start + k - 1]

\* self[lo:hi] as it would be if the upper bound were included.
getitem_slice_inclusive(h, lst, lo, hi) ==
    LET ii == XRange(SliceBound(lo, Len(lst)), SliceBound(hi + 1, Len(lst)))
    IN from_list(h, [k \in DOMAIN ii |-> lst[ii[k] + 1]])

\* self[lo:hi]
getitem_slice(h, lst, lo, hi) ==
    LET ii == XRange(SliceBound(lo, Len(lst)), SliceBound(hi, Len(lst)))
    IN from_list(h, [k \in DOMAIN ii |-> lst[ii[k] + 1]])

Slice(lo, hi) ==
    LET s == getitem_slice(heap, loop_predictions, lo, hi)
    IN /\ pre' = Snapshot
       /\ sub' = IF s.exc = NoExc THEN s.lps ELSE EmptySet
       /\ heap' = Collect(heap, loop_predictions, loop_prediction_map, sub')
       /\ ret' = Call("slice", <<lo, hi>>, s.exc, 0)
       /\ UNCHANGED <<loop_predictions, loop_prediction_map>>

---------------------------------------------------------------------------
(* Specification of the set operations *)

Ids == 1..MaxId
Scores == {Num(0), Num(1)}

NoSnapshot == [heap |-> EmptyMap, loop_predictions |-> <<>>,
               loop_prediction_map |-> EmptyMap]

Init ==
    /\ heap = EmptyMap
    /\ loop_predictions = <<>>
    /\ loop_prediction_map = EmptyMap
    /\ sub = EmptySet
    /\ pre = NoSnapshot
    /\ ret = Call("init", <<>>, NoExc, 0)

DoAdd == \E id \in Ids, score \in Scores \cup {None}, rmsd \in {None} :
            Add(id, score, rmsd, None)

DoTruncate == \E n \in 0..MaxRecs : Truncate(n)

DoSortByScore == Sort("score")

DoSortByRmsd == Sort("rmsd")

DoSlice == \E lo, hi \in 0..MaxRecs : Slice(lo, hi)

Next == DoAdd \/ DoTruncate \/ DoSortByScore \/ DoSortByRmsd \/ DoSlice

Spec == Init /\ [][Next]_vars

---------------------------------------------------------------------------
(* Claims about the set operations, checked under Spec *)

IdsOf(h, lst) == {h[lst[i]].id : i \in DOMAIN lst}

NoTwoWithSameId(h, lst) ==
    \A i, j \in DOMAIN lst : h[lst[i]].id = h[lst[j]].id => i = j

\* C1: an add whose id is already in the set fails and leaves the list and
\* the dict as they were, and no set (the set itself or a slice of it) ever
\* holds two records with the same id.
C1_DuplicateIdRejected ==
    /\ (ret.op = "add" /\ ret.args[1] \in IdsOf(pre.heap, pre.loop_predictions))
          => /\ ret.exc # NoExc
             /\ loop_predictions = pre.loop_predictions
             /\ loop_prediction_map = pre.loop_prediction_map
    /\ NoTwoWithSameId(heap, loop_predictions)
    /\ NoTwoWithSameId(heap, sub.loop_predictions)

\* C2: in every state, also after a call that failed, the ids of the list
\* are the keys of the dict, in the set and in a slice of it.
C2_ListAndMapAgree ==
    /\ IdsOf(heap, loop_predictions) = DOMAIN loop_prediction_map
    /\ IdsOf(heap, sub.loop_predictions) = DOMAIN sub.loop_prediction_map

\* C3: after truncate(n) on a list of length L the list is the first
\* min(n, L) records of the list before the call, in that order; get finds
\* every id that remains and none that was discarded.
C3_Truncate ==
    (ret.op = "truncate" /\ ret.exc = NoExc) =>
        LET n == ret.args[1]
            L == Len(pre.loop_predictions)
            k == Min(n, L)
        IN /\ Len(loop_predictions) = k
           /\ \A i \in 1..k : /\ loop_predictions[i] = pre.loop_predictions[i]
                              /\ heap[loop_predictions[i]]
                                    = pre.heap[pre.loop_predictions[i]]
                              /\ get(loop_prediction_map, heap[loop_predictions[i]].id)
                                    = loop_predictions[i]
           /\ \A i \in (k + 1)..L :
                 get(loop_prediction_map, pre.heap[pre.loop_predictions[i]].id) = 0

C3_Witness ==
    /\ ret.op = "truncate" /\ ret.exc = NoExc
    /\ ret.args[1] < Len(pre.loop_predictions)
    /\ Len(loop_predictions) >= 1

\* C4: self[lo:hi] returns a new set holding the records of the list at the
\* indices lo..hi-1, clipped to the list, in the same order, and leaves the
\* list, the dict and the records of the parent as they were.
C4_Slice ==
    (ret.op = "slice") =>
        LET L == Len(pre.loop_predictions)
            a == Min(ret.args[1], L)
            b == Min(ret.args[2], L)
        IN /\ ret.exc = NoExc
           /\ Len(sub.loop_predictions) = Max(b - a, 0)
           /\ \A k \in 1..Len(sub.loop_predictions) :
                 sub.loop_predictions[k] = pre.loop_predictions[a + k]
           /\ loop_predictions = pre.loop_predictions
           /\ loop_prediction_map = pre.loop_prediction_map
           /\ heap = pre.heap

C4_Witness ==
    /\ ret.op = "slice" /\ ret.exc = NoExc
    /\ ret.args[1] >= 1
    /\ Len(sub.loop_predictions) >= 1
    /\ Len(sub.loop_predictions) < Len(loop_predictions)

---------------------------------------------------------------------------
(* Sorting a set built by from_list: SpecSort *)

\* The objects LoopPrediction(...) builds from the given arguments.
Built(ids, scores, rmsds, paths, matrices) ==
    {m.lp : m \in {mm \in {LoopPrediction(id, sc, None, r, p, mx) :
                              id \in ids, sc \in scores, r \in rmsds,
                              p \in paths, mx \in matrices} : mm.exc = NoExc}}

\* The state after LoopPredictionSet.from_list on the objects h[1..n].
InitFromList(h) ==
    LET s == from_list(h, [i \in DOMAIN h |-> i])
    IN /\ heap = h
       /\ loop_predictions = s.lps.loop_predictions
       /\ loop_prediction_map = s.lps.loop_prediction_map
       /\ sub = EmptySet
       /\ pre = NoSnapshot
       /\ ret = Call("from_list", <<>>, s.exc, 0)

\* Records with score 0 and rmsd 1.0, score 1 and no rmsd, score 1 and rmsd 1.0:
\* the two orders differ, and both tie-breaks happen.
SortRecs == Built(1..MaxSortLen, {Num(0)}, {Num(10)}, {None}, {None})
            \cup Built(1..MaxSortLen, {Num(1)}, {None, Num(10)}, {None}, {None})

InitSort == \E n \in 0..MaxSortLen : \E h \in [1..n -> SortRecs] : InitFromList(h)

NextSort == DoSortByScore \/ DoSortByRmsd

SpecSort == InitSort /\ [][NextSort]_vars

\* All orders of the items of a list.
RECURSIVE Orders(_)
Orders(lst) ==
    IF lst = <<>> THEN {<<>>}
    ELSE UNION {{<<lst[i]>> \o o :
                   o \in Orders(SubSeq(lst, 1, i - 1) \o SubSeq(lst, i + 1, Len(lst)))} :
                i \in DOMAIN lst}

\* C5: a sort that returns leaves the list in an order every other order of
\* the same records sorts to as well; sorting by score, then by rmsd, then
\* by score gives the first order by score again; the sort keeps the
\* records of the list, the dict and the objects.
C5_SortIndependentOfOrder ==
    (ret.op \in {"score", "rmsd"} /\ ret.exc = NoExc) =>
        /\ \A o \in Orders(pre.loop_predictions) :
              LET r == list_sort(heap, ret.op, o)
              IN /\ r.exc = NoExc => r.lst = loop_predictions
                 /\ NoTwoWithSameId(heap, loop_predictions) => r.exc = NoExc
        /\ LET byRmsd == list_sort(heap, "rmsd", loop_predictions)
               again == list_sort(heap, "score", byRmsd.lst)
           IN (ret.op = "score" /\ byRmsd.exc = NoExc /\ again.exc = NoExc)
                 => again.lst = loop_predictions
        /\ loop_predictions \in Orders(pre.loop_predictions)
        /\ loop_prediction_map = pre.loop_prediction_map
        /\ heap = pre.heap

C5_Witness ==
    /\ ret.op = "score" /\ ret.exc = NoExc
    /\ Len(loop_predictions) = 3
    /\ loop_predictions # pre.loop_predictions
    /\ list_sort(heap, "rmsd", loop_predictions).exc = NoExc
    /\ list_sort(heap, "rmsd", loop_predictions).lst # loop_predictions
    /\ \E i, j \in DOMAIN loop_predictions :
          /\ i # j
          /\ heap[loop_predictions[i]].score = heap[loop_predictions[j]].score
          /\ heap[loop_predictions[i]].rmsd = heap[loop_predictions[j]].rmsd

---------------------------------------------------------------------------
(* The comparators on three records: SpecCmp *)

CmpRecs == Built(1..MaxCmpId, Scores, {None, Num(0), Num(10)}, {None}, {None})

InitCmp ==
    /\ heap \in [1..3 -> CmpRecs]
    /\ loop_predictions = <<>>
    /\ loop_prediction_map = EmptyMap
    /\ sub = EmptySet
    /\ pre = NoSnapshot
    /\ ret = Call("records", <<>>, NoExc, 0)

\* Both comparators applied to every pair of the three records.
DoCompare ==
    /\ ret.op = "records"
    /\ ret' = Call("cmp", <<>>, NoExc,
                   [mode \in {"score", "rmsd"} |->
                       [i \in 1..3 |-> [j \in 1..3 |-> Cmp(heap, mode, i, j)]]])
    /\ UNCHANGED <<heap, loop_predictions, loop_prediction_map, sub, pre>>

NextCmp == DoCompare

SpecCmp == InitCmp /\ [][NextCmp]_vars

BothNumeric(x, y) == x.t = "num" /\ y.t = "num"

\* C6: on records with distinct ids each comparator answers -1 or 1, the
\* answers for (a, b) and (b, a) are opposite, and "a before b" is
\* transitive; by score the order is that of the scores, then of the
\* deviations, then of the ids; by deviation it is that of the deviations,
\* then of the scores, then of the ids.
C6_ComparatorsTotalOrder ==
    (ret.op = "cmp") =>
        \A mode \in {"score", "rmsd"} : \A i, j \in 1..3 :
            heap[i].id # heap[j].id =>
                LET a == heap[i]
                    b == heap[j]
                    c == ret.val[mode][i][j]
                    first(r) == IF mode = "score" THEN r.score ELSE r.rmsd
                    second(r) == IF mode = "score" THEN r.rmsd ELSE r.score
                IN /\ c \in {-1, 1}
                   /\ c = 0 - ret.val[mode][j][i]
                   /\ (BothNumeric(first(a), first(b)) /\ first(a).v < first(b).v)
                         => c = -1
                   /\ (first(a) = first(b) /\ BothNumeric(second(a), second(b))
                          /\ second(a).v < second(b).v) => c = -1
                   /\ (first(a) = first(b) /\ second(a) = second(b) /\ a.id < b.id)
                         => c = -1
                   /\ \A k \in 1..3 :
                         (heap[k].id \notin {a.id, b.id} /\ c = -1
                            /\ ret.val[mode][j][k] = -1) => ret.val[mode][i][k] = -1

C6_Witness ==
    /\ ret.op = "cmp"
    /\ heap[1].id # heap[2].id /\ heap[2].id # heap[3].id /\ heap[1].id # heap[3].id
    /\ heap[1].score = heap[2].score /\ heap[1].rmsd = heap[2].rmsd
    /\ heap[3].rmsd = heap[1].rmsd /\ heap[3].score # heap[1].score
    /\ heap[1].rmsd.t = "num"

---------------------------------------------------------------------------
(* Building one record: SpecRec *)

RecArgs ==
    [id : 1..2,
     score : {Num(0), Num(5), None, Str(0), Str(1)},
     rmsd : {None, Num(0), Num(5), Str(0), Str(1)},
     pdb_path : {None, Str(1), Str(2)},
     pdb_loop_residue_matrix : {None, Mat(0)}]

InitRec ==
    /\ heap = EmptyMap
    /\ loop_predictions = <<>>
    /\ loop_prediction_map = EmptyMap
    /\ sub = EmptySet
    /\ pre = NoSnapshot
    /\ \E a \in RecArgs : ret = Call("args", <<>>, NoExc, a)

\* LoopPrediction(id, score, rmsd = ..., pdb_path = ..., ...)
DoConstruct ==
    /\ ret.op = "args"
    /\ LET a == ret.val
           made == LoopPrediction(a.id, a.score, None, a.rmsd, a.pdb_path,
                                  a.pdb_loop_residue_matrix)
       IN /\ ret' = Call("LoopPrediction", <<>>, made.exc, a)
          /\ heap' = IF made.exc = NoExc THEN [r \in {1} |-> made.lp] ELSE heap
    /\ UNCHANGED <<loop_predictions, loop_prediction_map, sub, pre>>

NextRec == DoConstruct

SpecRec == InitRec /\ [][NextRec]_vars

\* C9: building a record fails when the score is not a number, when a
\* deviation is given and is not a number, and when a path is given and
\* nothing exists there; no record built has a score that is not a number
\* or a deviation that is present and not a number.
C9_TypeMismatchRejected ==
    /\ (ret.op = "LoopPrediction"
          /\ \/ ~IsNumeric(ret.val.score)
             \/ (ret.val.rmsd # None /\ ~IsNumeric(ret.val.rmsd))
             \/ (ret.val.pdb_path # None /\ ~PathExists(ret.val.pdb_path)))
          => ret.exc = AssertionError
    /\ \A r \in DOMAIN heap :
          /\ IsNumeric(heap[r].score)
          /\ heap[r].rmsd # None => IsNumeric(heap[r].rmsd)

---------------------------------------------------------------------------
(* fraction_with_rmsd_lt on a set built by from_list: SpecFrac *)

RECURSIVE fraction_loop(_, _, _, _, _, _)
fraction_loop(h, rest, x, allow_failure, strict, c) ==
    IF rest = <<>> THEN [exc |-> NoExc, c |-> c]
    ELSE LET rmsd == h[Head(rest)].rmsd
         IN IF rmsd = None /\ ~allow_failure THEN [exc |-> MissingRmsd, c |-> c]
            ELSE fraction_loop(h, Tail(rest), x, allow_failure, strict,
                     IF (strict /\ Py2Lt(rmsd, x)) \/ (~strict /\ Py2Le(rmsd, x))
                     THEN c + 1 ELSE c)

\* fraction_with_rmsd_lt as it would be if strict were ignored.
fraction_never_strict(h, lst, x, allow_failure, strict) ==
    LET loop == fraction_loop(h, lst, x, allow_failure, FALSE, 0)
    IN IF loop.exc # NoExc THEN [exc |-> loop.exc, val |-> 0]
       ELSE IF Len(lst) = 0 THEN [exc |-> ZeroDivisionError, val |-> 0]
       ELSE [exc |-> NoExc, val |-> [num |-> loop.c, den |-> Len(lst)]]

\* The value float(c) / float(len(...)) is kept as the pair (c, len).
fraction_with_rmsd_lt(h, lst, x, allow_failure, strict) ==
    LET loop == fraction_loop(h, lst, x, allow_failure, strict, 0)
    IN IF loop.exc # NoExc THEN [exc |-> loop.exc, val |-> 0]
       ELSE IF Len(lst) = 0 THEN [exc |-> ZeroDivisionError, val |-> 0]
       ELSE [exc |-> NoExc, val |-> [num |-> loop.c, den |-> Len(lst)]]

Fraction(x, allow_failure, strict) ==
    LET f == fraction_with_rmsd_lt(heap, loop_predictions, x, allow_failure, strict)
    IN /\ pre' = Snapshot
       /\ ret' = Call("fraction",
                      [x |-> x, allow_failure |-> allow_failure, strict |-> strict],
                      f.exc, f.val)
       /\ sub' = EmptySet
       /\ UNCHANGED <<heap, loop_predictions, loop_prediction_map>>

FracRmsds == {None, Num(5), Num(9), Num(10), Num(15)}

InitFrac ==
    \E n \in 0..MaxFracLen : \E r \in [1..n -> FracRmsds] :
        InitFromList([i \in 1..n |->
                        LoopPrediction(i, Num(0), None, r[i], None, None).lp])

DoFraction ==
    \E x \in {Num(10), Num(14)}, allow_failure \in BOOLEAN, strict \in BOOLEAN :
        Fraction(x, allow_failure, strict)

NextFrac == DoFraction

SpecFrac == InitFrac /\ [][NextFrac]_vars

Rmsds(h, lst) == [i \in DOMAIN lst |-> h[lst[i]].rmsd]

\* The records with a deviation below x (at most x when not strict).
Below(h, lst, x, strict) ==
    {i \in DOMAIN lst : /\ h[lst[i]].rmsd.t = "num"
                        /\ IF strict THEN h[lst[i]].rmsd.v < x.v
                           ELSE h[lst[i]].rmsd.v <= x.v}

\* C7: on a set with a record that has no deviation, the call fails unless
\* allow_failure is set, and with allow_failure set it returns, counting
\* only records that have a deviation.
C7_MissingDeviationExcluded ==
    (ret.op = "fraction" /\ \E i \in DOMAIN loop_predictions :
                               heap[loop_predictions[i]].rmsd = None) =>
        IF ~ret.args.allow_failure THEN ret.exc = MissingRmsd
        ELSE /\ ret.exc = NoExc
             /\ ret.val.num = Cardinality(Below(heap, loop_predictions,
                                                ret.args.x, ret.args.strict))

FractionIsCount ==
    /\ ret.exc = NoExc
    /\ ret.val.den = Len(loop_predictions)
    /\ ret.val.num = Cardinality(Below(heap, loop_predictions, ret.args.x,
                                       ret.args.strict))
    /\ 0 <= ret.val.num /\ ret.val.num <= ret.val.den /\ ret.val.den > 0
    /\ loop_predictions = pre.loop_predictions
    /\ loop_prediction_map = pre.loop_prediction_map
    /\ heap = pre.heap
    /\ (Rmsds(heap, loop_predictions) = <<Num(5), Num(10), Num(15), Num(9)>>
          /\ ret.args.x = Num(10))
          => IF ret.args.strict THEN 2 * ret.val.num = ret.val.den
             ELSE 4 * ret.val.num = 3 * ret.val.den

AllHaveRmsd == \A i \in DOMAIN loop_predictions :
                  heap[loop_predictions[i]].rmsd.t = "num"

\* C8 as stated: on every set whose records all have a deviation the call
\* returns the number of records below the threshold over the number of
\* records, a value from 0 to 1, and changes nothing.
C8_FractionOnEverySet ==
    (ret.op = "fraction" /\ AllHaveRmsd) => FractionIsCount

\* C8: on every set that is not empty and whose records all have a
\* deviation, the call returns the number of records with a deviation below
\* x (at most x when not strict) over the number of records, a value from 0
\* to 1, and changes nothing; deviations 0.5, 1.0, 1.5, 0.9 and x = 1.0 give
\* 0.5 when strict and 0.75 when not.
C8_FractionOnNonEmptySet ==
    (ret.op = "fraction" /\ AllHaveRmsd /\ Len(loop_predictions) > 0)
        => FractionIsCount

C8_Witness ==
    /\ ret.op = "fraction" /\ ret.exc = NoExc
    /\ Rmsds(heap, loop_predictions) = <<Num(5), Num(10), Num(15), Num(9)>>
    /\ ret.args.x = Num(10) /\ ret.args.strict
    /\ ret.val = [num |-> 2, den |-> 4]

---------------------------------------------------------------------------
(* compute_rmsds on a set built by from_list: SpecRmsd *)

\* klab's compute_rmsd_by_matrix(reference, matrix): a coordinate matrix is
\* one coordinate here, and the deviation is the distance in units of 0.1.
compute_rmsd_by_matrix(ref, m) ==
    Num(5 * (IF ref.v < m.v THEN m.v - ref.v ELSE ref.v - m.v))

\* compute_rmsds as it would be if records without a matrix were skipped.
RECURSIVE compute_rmsds_skipping(_, _, _)
compute_rmsds_skipping(h, lst, ref) ==
    IF lst = <<>> THEN [exc |-> NoExc, heap |-> h]
    ELSE LET r == Head(lst)
         IN IF h[r].pdb_loop_residue_matrix = None
            THEN compute_rmsds_skipping(h, Tail(lst), ref)
            ELSE compute_rmsds_skipping(
                    [h EXCEPT ![r].rmsd =
                        compute_rmsd_by_matrix(ref, h[r].pdb_loop_residue_matrix)],
                    Tail(lst), ref)

RECURSIVE compute_rmsds_loop(_, _, _)
compute_rmsds_loop(h, lst, ref) ==
    IF lst = <<>> THEN [exc |-> NoExc, heap |-> h]
    ELSE LET r == Head(lst)
         IN IF h[r].pdb_loop_residue_matrix = None
            THEN [exc |-> AssertionError, heap |-> h]
            ELSE compute_rmsds_loop(
                    [h EXCEPT ![r].rmsd =
                        compute_rmsd_by_matrix(ref, h[r].pdb_loop_residue_matrix)],
                    Tail(lst), ref)

\* compute_rmsds as it would be if the deviations were stored on copies of
\* the records.
compute_rmsds_on_copies(h, lst, ref) ==
    [exc |-> compute_rmsds_loop(h, lst, ref).exc, heap |-> h]

compute_rmsds(h, lst, ref) == compute_rmsds_loop(h, lst, ref)

ComputeRmsds(ref) ==
    LET c == compute_rmsds(heap, loop_predictions, ref)
    IN /\ pre' = Snapshot
       /\ heap' = c.heap
       /\ ret' = Call("compute_rmsds", ref, c.exc, 0)
       /\ sub' = EmptySet
       /\ UNCHANGED <<loop_predictions, loop_prediction_map>>

InitRmsd ==
    \E n \in 0..MaxRmsdLen :
        \E m \in [1..n -> {None, Mat(0), Mat(2)}], r \in [1..n -> {None, Num(10)}] :
            InitFromList([i \in 1..n |->
                            LoopPrediction(i, Num(0), None, r[i], None, m[i]).lp])

DoComputeRmsds == \E ref \in {Mat(0), Mat(1)} : ComputeRmsds(ref)

\* check_rmsds as it would be with the first assertion only.
RECURSIVE check_rmsds_presence_only(_, _, _)
check_rmsds_presence_only(h, lst, ref) ==
    IF lst = <<>> THEN NoExc
    ELSE LET lp == h[Head(lst)]
         IN IF ~ (lp.pdb_loop_residue_matrix # None /\ lp.rmsd # None)
            THEN AssertionError
            ELSE check_rmsds_presence_only(h, Tail(lst), ref)

\* check_rmsds: two assertions per record, in list order; nothing is stored.
RECURSIVE check_rmsds(_, _, _)
check_rmsds(h, lst, ref) ==
    IF lst = <<>> THEN NoExc
    ELSE LET lp == h[Head(lst)]
         IN IF ~ (lp.pdb_loop_residue_matrix # None /\ lp.rmsd # None)
            THEN AssertionError
            ELSE IF ~ (lp.rmsd = compute_rmsd_by_matrix(ref, lp.pdb_loop_residue_matrix))
            THEN AssertionError
            ELSE check_rmsds(h, Tail(lst), ref)

CheckRmsds(ref) ==
    /\ pre' = Snapshot
    /\ ret' = Call("check_rmsds", ref, check_rmsds(heap, loop_predictions, ref), 0)
    /\ sub' = EmptySet
    /\ UNCHANGED <<heap, loop_predictions, loop_prediction_map>>

DoCheckRmsds == \E ref \in {Mat(0), Mat(1), Mat(4)} : CheckRmsds(ref)

NextRmsd == DoComputeRmsds \/ DoCheckRmsds

SpecRmsd == InitRmsd /\ [][NextRmsd]_vars

\* C10: compute_rmsds fails when a record of the set has no coordinate
\* matrix; when it returns, every record's rmsd is the deviation of its
\* matrix from the reference, and the list, the dict, and each record's id,
\* score and matrix are as before.
C10_ComputeRmsds ==
    (ret.op = "compute_rmsds") =>
        /\ (\E i \in DOMAIN pre.loop_predictions :
               pre.heap[pre.loop_predictions[i]].pdb_loop_residue_matrix = None)
              => ret.exc = AssertionError
        /\ ret.exc = NoExc =>
              /\ loop_predictions = pre.loop_predictions
              /\ loop_prediction_map = pre.loop_prediction_map
              /\ DOMAIN heap = DOMAIN pre.heap
              /\ \A r \in DOMAIN heap :
                    /\ heap[r].rmsd
                          = compute_rmsd_by_matrix(ret.args,
                                                   pre.heap[r].pdb_loop_residue_matrix)
                    /\ heap[r].id = pre.heap[r].id
                    /\ heap[r].score = pre.heap[r].score
                    /\ heap[r].pdb_loop_residue_matrix
                          = pre.heap[r].pdb_loop_residue_matrix

C10_Witness ==
    /\ ret.op = "compute_rmsds" /\ ret.exc = NoExc
    /\ Len(loop_predictions) >= 2
    /\ heap[loop_predictions[1]].rmsd # heap[loop_predictions[2]].rmsd
    /\ pre.heap[loop_predictions[1]].rmsd = None

\* A record check_rmsds cannot accept: no stored rmsd, no matrix to recompute
\* it from, or a stored rmsd other than the recomputed one.
Inconsistent(lp, ref) ==
    \/ lp.rmsd = None
    \/ lp.pdb_loop_residue_matrix = None
    \/ lp.rmsd # compute_rmsd_by_matrix(ref, lp.pdb_loop_residue_matrix)

SameDeviations(h, lst, ref1, ref2) ==
    \A i \in DOMAIN lst :
        compute_rmsd_by_matrix(ref1, h[lst[i]].pdb_loop_residue_matrix)
            = compute_rmsd_by_matrix(ref2, h[lst[i]].pdb_loop_residue_matrix)

\* C11: check_rmsds raises AssertionError exactly when some record of the set
\* has no stored rmsd or a stored rmsd other than the deviation of its matrix
\* from the reference (a record without a matrix has nothing to agree with);
\* it changes no record, nor the list, nor the dict; and a check_rmsds that
\* directly follows a compute_rmsds which returned, with a reference giving
\* the same deviations, returns normally.
C11_CheckRmsds ==
    /\ [](ret.op = "check_rmsds" =>
            /\ ret.exc \in {NoExc, AssertionError}
            /\ ret.exc = AssertionError
                  <=> \E i \in DOMAIN loop_predictions :
                          Inconsistent(pre.heap[loop_predictions[i]], ret.args)
            /\ heap = pre.heap
            /\ loop_predictions = pre.loop_predictions
            /\ loop_prediction_map = pre.loop_prediction_map)
    /\ [][(/\ ret.op = "compute_rmsds" /\ ret.exc = NoExc
           /\ ret'.op = "check_rmsds"
           /\ SameDeviations(heap, loop_predictions, ret.args, ret'.args))
              => ret'.exc = NoExc]_vars

\* A check against another reference that passes after compute_rmsds, on a
\* set of two records.
C11_Witness ==
    /\ ret.op = "check_rmsds" /\ ret.exc = NoExc
    /\ Len(loop_predictions) = 2
    /\ ret.args = Mat(4)
    /\ \A i \in DOMAIN loop_predictions :
          heap[loop_predictions[i]].rmsd = Num(10)

---------------------------------------------------------------------------
(* extract_analysis_data: the statistics of one benchmark case (the body   *)
(* of the loop over pdb_ids), then the loop itself and the report files.   *)
(* A case is a record c: the LoopPredictionSet being analysed (heap,       *)
(* loop_predictions, loop_prediction_map), the locals of the loop body,    *)
(* and the exception that ended the body, if one did.                      *)

IndexError == "IndexError"
SystemExit == "SystemExit"

\* A percentage 100 * c / n is kept as the pair (100 * c, n).
NoPercent == [num |-> 0, den |-> 1]

Percent(f) == [num |-> 100 * f.num, den |-> f.den]

PercentLt(a, b) == a.num * b.den < b.num * a.den

\* The threshold 1.0 of fraction_with_rmsd_lt(1.0).
SubAngstrom == Num(10)

\* The smallest reference not in use.
FreshRef(h) ==
    CHOOSE r \in 1..(Cardinality(DOMAIN h) + 1) :
        r \notin DOMAIN h /\ \A q \in 1..(r - 1) : q \in DOMAIN h

\* LoopPredictionSet.add on the set lps.
add(h, lps, id, score, pdb_id, rmsd, pdb_path, pdb_loop_residue_matrix) ==
    LET made == LoopPrediction(id, score, pdb_id, rmsd, pdb_path,
                               pdb_loop_residue_matrix)
        r == FreshRef(h)
    IN IF IdInList(id, lps.loop_predictions) \/ made.exc # NoExc
       THEN [exc |-> AssertionError, heap |-> h, lps |-> lps]
       ELSE [exc |-> NoExc,
             heap |-> [x \in DOMAIN h \cup {r} |-> IF x = r THEN made.lp ELSE h[x]],
             lps |-> [loop_predictions |-> Append(lps.loop_predictions, r),
                      loop_prediction_map |->
                          DictSet(lps.loop_prediction_map, id, r)]]

\* self[key] for an int key.
getitem(lst, key) ==
    IF key >= Len(lst) \/ key < -Len(lst) THEN [exc |-> IndexError, r |-> 0]
    ELSE [exc |-> NoExc, r |-> lst[(IF key < 0 THEN key + Len(lst) ELSE key) + 1]]

NoCase ==
    [exc |-> NoExc, at |-> "", pdb_id |-> None, extracted |-> 0,
     rcsb_reference_matrix |-> None, rosetta_reference_matrix |-> None,
     heap |-> EmptyMap, loop_predictions |-> <<>>, loop_prediction_map |-> EmptyMap,
     by_score |-> <<>>, top_x_set |-> EmptySet, median |-> 0, best |-> 0, worst |-> 0,
     best_score |-> None, worst_score |-> None,
     curve |-> <<>>, after_curve |-> <<>>,
     total_percent |-> NoPercent, top_x_percent |-> NoPercent,
     closest_rmsd |-> None, closest_score |-> None,
     top_1_rmsd |-> None, top_x_rmsd |-> None, top_x_score |-> None]

\* The exception exc leaves the loop body at the statement named at.
Fail(c, exc, at) == [c EXCEPT !.exc = exc, !.at = at]

\* for d in details: loop_prediction_set.add(...)
RECURSIVE add_details(_, _)
add_details(c, details) ==
    IF details = <<>> THEN c
    ELSE LET d == Head(details)
             a == add(c.heap,
                      [loop_predictions |-> c.loop_predictions,
                       loop_prediction_map |-> c.loop_prediction_map],
                      d.id, d.score, c.pdb_id, None, d.predicted_structure,
                      d.pdb_loop_residue_matrix)
         IN IF a.exc # NoExc THEN Fail(c, a.exc, "add")
            ELSE add_details([c EXCEPT !.heap = a.heap,
                                       !.loop_predictions = a.lps.loop_predictions,
                                       !.loop_prediction_map = a.lps.loop_prediction_map],
                             Tail(details))

\* A new LoopPredictionSet filled from what the extraction method returned.
read_details(pdb_id, details, rcsb_reference_matrix, rosetta_reference_matrix) ==
    add_details([NoCase EXCEPT !.pdb_id = pdb_id, !.extracted = Len(details),
                               !.rcsb_reference_matrix = rcsb_reference_matrix,
                               !.rosetta_reference_matrix = rosetta_reference_matrix],
                details)

\* compute_rmsds against the RCSB reference, check_rmsds against the Rosetta one.
compute_and_check(c) ==
    IF c.exc # NoExc THEN c
    ELSE LET computed == compute_rmsds(c.heap, c.loop_predictions, c.rcsb_reference_matrix)
             checked == check_rmsds(computed.heap, c.loop_predictions,
                                    c.rosetta_reference_matrix)
         IN IF computed.exc # NoExc
            THEN Fail([c EXCEPT !.heap = computed.heap], computed.exc, "compute_rmsds")
            ELSE IF checked # NoExc
            THEN Fail([c EXCEPT !.heap = computed.heap], checked, "check_rmsds")
            ELSE [c EXCEPT !.heap = computed.heap]

\* The test of the population after truncation, as it would be if left out.
wrong_population_ignored(n, expectn) == FALSE

\* len(loop_prediction_set) != expectn
wrong_population(n, expectn) == n # expectn

\* sort_by_score, truncate(expectn), and the exit when structures are missing.
truncate_to_expectn(c, expectn) ==
    IF c.exc # NoExc THEN c
    ELSE LET s == list_sort(c.heap, "score", c.loop_predictions)
             t == truncate(c.heap, s.lst, c.loop_prediction_map, expectn)
             cut == [c EXCEPT !.loop_predictions = t.loop_predictions,
                              !.loop_prediction_map = t.loop_prediction_map]
         IN IF s.exc # NoExc
            THEN Fail([c EXCEPT !.loop_predictions = s.lst], s.exc, "sort_by_score")
            ELSE IF t.exc # NoExc THEN Fail(cut, t.exc, "truncate")
            ELSE IF wrong_population(Len(t.loop_predictions), expectn)
            THEN Fail(cut, SystemExit, "population")
            ELSE [cut EXCEPT !.by_score = t.loop_predictions]

\* int(expectn / 2) as it would be if the lower middle were taken.
median_index_lower(expectn) == (expectn - 1) \div 2

\* int(expectn / 2): the division of two ints is the floor division.
median_index(expectn) == expectn \div 2

\* The top-X set, the median, best and worst structures, and the assertion
\* that the top-X set starts with the best one.
pick_structures(c, expectn, top_x) ==
    IF c.exc # NoExc THEN c
    ELSE LET top == getitem_slice(c.heap, c.loop_predictions, 0, top_x)
             median == getitem(c.loop_predictions, median_index(expectn))
             best == getitem(c.loop_predictions, 0)
             worst == getitem(c.loop_predictions, -1)
             first == getitem(top.lps.loop_predictions, 0)
         IN IF top.exc # NoExc THEN Fail(c, top.exc, "top_x_set")
            ELSE IF median.exc # NoExc THEN Fail(c, median.exc, "median")
            ELSE IF best.exc # NoExc THEN Fail(c, best.exc, "best")
            ELSE IF worst.exc # NoExc THEN Fail(c, worst.exc, "worst")
            ELSE IF first.exc # NoExc THEN Fail(c, first.exc, "assert best")
            ELSE IF first.r # best.r THEN Fail(c, AssertionError, "assert best")
            ELSE [c EXCEPT !.top_x_set = top.lps, !.median = median.r,
                           !.best = best.r, !.worst = worst.r,
                           !.best_score = c.heap[best.r].score,
                           !.worst_score = c.heap[worst.r].score]

\* The loop over top_x_var as it would be if it stopped one short.
percent_subangstrom_short(h, lst) ==
    [top_x_var \in 1..(Len(lst) - 1) |->
        LET new_subset == getitem_slice(h, lst, 0, top_x_var)
        IN fraction_with_rmsd_lt(h, new_subset.lps.loop_predictions,
                                 SubAngstrom, FALSE, TRUE)]

\* for top_x_var in range(1, len(loop_prediction_set) + 1): the value of
\* new_subset.fraction_with_rmsd_lt(1.0) for each top_x_var.
percent_subangstrom(h, lst) ==
    [top_x_var \in 1..Len(lst) |->
        LET new_subset == getitem_slice(h, lst, 0, top_x_var)
        IN fraction_with_rmsd_lt(h, new_subset.lps.loop_predictions,
                                 SubAngstrom, FALSE, TRUE)]

\* sort_by_score again, then the values for the TopX variable plot.
top_x_curve(c) ==
    IF c.exc # NoExc THEN c
    ELSE LET s == list_sort(c.heap, "score", c.loop_predictions)
             f == percent_subangstrom(c.heap, s.lst)
         IN IF s.exc # NoExc
            THEN Fail([c EXCEPT !.loop_predictions = s.lst], s.exc, "sort_by_score")
            ELSE IF \E k \in DOMAIN f : f[k].exc # NoExc
            THEN Fail([c EXCEPT !.loop_predictions = s.lst],
                      f[CHOOSE k \in DOMAIN f :
                            f[k].exc # NoExc /\ \A j \in 1..(k - 1) : f[j].exc = NoExc].exc,
                      "percent_subangstrom")
            ELSE [c EXCEPT !.loop_predictions = s.lst,
                           !.curve = [k \in DOMAIN f |-> Percent(f[k].val)],
                           !.after_curve = s.lst]

\* total_percent_subanstrom and top_x_percent_subanstrom
percentages(c) ==
    IF c.exc # NoExc THEN c
    ELSE LET total == fraction_with_rmsd_lt(c.heap, c.loop_predictions,
                                            SubAngstrom, FALSE, TRUE)
             top == fraction_with_rmsd_lt(c.heap, c.top_x_set.loop_predictions,
                                          SubAngstrom, FALSE, TRUE)
         IN IF total.exc # NoExc THEN Fail(c, total.exc, "total_percent")
            ELSE IF top.exc # NoExc THEN Fail(c, top.exc, "top_x_percent")
            ELSE [c EXCEPT !.total_percent = Percent(total.val),
                           !.top_x_percent = Percent(top.val)]

\* The closest model as it would be if the set were left in score order.
closest_model_by_score(c) ==
    IF c.exc # NoExc THEN c
    ELSE LET s == list_sort(c.heap, "score", c.loop_predictions)
             closest == getitem(s.lst, 0)
         IN IF s.exc # NoExc
            THEN Fail([c EXCEPT !.loop_predictions = s.lst], s.exc, "sort_by_rmsd")
            ELSE IF closest.exc # NoExc
            THEN Fail([c EXCEPT !.loop_predictions = s.lst], closest.exc, "closest")
            ELSE [c EXCEPT !.loop_predictions = s.lst,
                           !.closest_rmsd = c.heap[closest.r].rmsd,
                           !.closest_score = c.heap[closest.r].score]

\* sort_by_rmsd, then the rmsd and the score of the first structure.
closest_model(c) ==
    IF c.exc # NoExc THEN c
    ELSE LET s == list_sort(c.heap, "rmsd", c.loop_predictions)
             closest == getitem(s.lst, 0)
         IN IF s.exc # NoExc
            THEN Fail([c EXCEPT !.loop_predictions = s.lst], s.exc, "sort_by_rmsd")
            ELSE IF closest.exc # NoExc
            THEN Fail([c EXCEPT !.loop_predictions = s.lst], closest.exc, "closest")
            ELSE [c EXCEPT !.loop_predictions = s.lst,
                           !.closest_rmsd = c.heap[closest.r].rmsd,
                           !.closest_score = c.heap[closest.r].score]

\* The scan of the top-X set as it would be if an equal rmsd replaced the
\* one held.
RECURSIVE top_x_scan_takes_ties(_, _, _, _)
top_x_scan_takes_ties(h, rest, top_x_rmsd, top_x_score) ==
    IF rest = <<>> THEN [rmsd |-> top_x_rmsd, score |-> top_x_score]
    ELSE LET s == h[Head(rest)]
         IN IF Py2Le(s.rmsd, top_x_rmsd)
            THEN top_x_scan_takes_ties(h, Tail(rest), s.rmsd, s.score)
            ELSE top_x_scan_takes_ties(h, Tail(rest), top_x_rmsd, top_x_score)

\* for s in top_x_loop_prediction_sets[pdb_id]: keep the lower rmsd, and the
\* lower score among equal rmsds.
RECURSIVE top_x_scan(_, _, _, _)
top_x_scan(h, rest, top_x_rmsd, top_x_score) ==
    IF rest = <<>> THEN [rmsd |-> top_x_rmsd, score |-> top_x_score]
    ELSE LET s == h[Head(rest)]
         IN IF Py2Lt(s.rmsd, top_x_rmsd)
               \/ (s.rmsd = top_x_rmsd /\ Py2Lt(s.score, top_x_score))
            THEN top_x_scan(h, Tail(rest), s.rmsd, s.score)
            ELSE top_x_scan(h, Tail(rest), top_x_rmsd, top_x_score)

\* top_1_rmsd, the scan for top_x_rmsd and top_x_score, and the two assertions.
top_x_metric(c) ==
    IF c.exc # NoExc THEN c
    ELSE LET top_1_rmsd == c.heap[c.best].rmsd
             scan == top_x_scan(c.heap, c.top_x_set.loop_predictions,
                                c.heap[c.best].rmsd, c.heap[c.best].score)
             done == [c EXCEPT !.top_1_rmsd = top_1_rmsd, !.top_x_rmsd = scan.rmsd,
                               !.top_x_score = scan.score]
         IN IF ~ Py2Le(scan.score, c.worst_score)
            THEN Fail(done, AssertionError, "assert top_x_score")
            ELSE IF ~ Py2Le(scan.rmsd, top_1_rmsd)
            THEN Fail(done, AssertionError, "assert top_x_rmsd")
            ELSE done

\* The body of the loop over pdb_ids, up to the row of the summary file.
analyze_case(pdb_id, details, rcsb_reference_matrix, rosetta_reference_matrix, expectn, top_x) ==
    top_x_metric(closest_model(percentages(top_x_curve(
        pick_structures(
            truncate_to_expectn(
                compute_and_check(
                    read_details(pdb_id, details, rcsb_reference_matrix,
                                 rosetta_reference_matrix)),
                expectn),
            expectn, top_x)))))

\* The line appended to csv_file.
SummaryRow(c, expectn) ==
    [pdb_id |-> c.pdb_id, models |-> expectn, total_percent |-> c.total_percent,
     top_x_percent |-> c.top_x_percent, best_score |-> c.best_score,
     top_x_score |-> c.top_x_score, median_score |-> c.heap[c.median].score,
     worst_score |-> c.worst_score, closest_score |-> c.closest_score,
     top_1_rmsd |-> c.top_1_rmsd, top_x_rmsd |-> c.top_x_rmsd,
     closest_rmsd |-> c.closest_rmsd]

\* The lines appended to percentage_subangstrom_over_top_X_plot_input.
PlotRows(c) ==
    [k \in DOMAIN c.curve |-> [pdb_id |-> c.pdb_id, x |-> k, percent |-> c.curve[k]]]

\* percent_subangrom_by_top_x[top_x_var][pdb_id] = percent_subangstrom
ByTopX(by_top_x, c) ==
    [k \in DOMAIN by_top_x \cup DOMAIN c.curve |->
        IF k \in DOMAIN c.curve
        THEN DictSet(IF k \in DOMAIN by_top_x THEN by_top_x[k] ELSE EmptyMap,
                     c.pdb_id, c.curve[k])
        ELSE by_top_x[k]]

\* sorted(values_by_pdb.values())[m]
SortedAt(values_by_pdb, m) ==
    CHOOSE v \in Range(values_by_pdb) :
        /\ Cardinality({p \in DOMAIN values_by_pdb : PercentLt(values_by_pdb[p], v)}) <= m
        /\ m < Cardinality({p \in DOMAIN values_by_pdb : ~ PercentLt(v, values_by_pdb[p])})

\* The column of median values: for every top_x_var the assertion that each
\* case has a value, and the middle one of the sorted values.
median_rows(by_top_x, pdb_ids) ==
    IF \E k \in DOMAIN by_top_x :
          ~ (/\ Cardinality(DOMAIN by_top_x[k]) = Len(pdb_ids)
             /\ DOMAIN by_top_x[k] = Range(pdb_ids))
    THEN [exc |-> AssertionError, rows |-> <<>>]
    ELSE [exc |-> NoExc,
          rows |-> [k \in DOMAIN by_top_x |->
                      [pdb_id |-> Str(0), x |-> k,
                       percent |-> SortedAt(by_top_x[k], Len(pdb_ids) \div 2)]]]

\* The state of a run: where it stands (pc), the index of the next case, the
\* lists and the dict built so far, and the files written.
StartOfRun ==
    [pc |-> "sanity", next |-> 1, csv_file |-> <<>>, plot_input |-> <<>>,
     by_top_x |-> EmptyMap, written |-> <<>>, case |-> NoCase]

InitRun(pdb_id_lists, expectns) ==
    /\ heap = EmptyMap
    /\ loop_predictions = <<>>
    /\ loop_prediction_map = EmptyMap
    /\ sub = EmptySet
    /\ pre = NoSnapshot
    /\ \E expectn \in expectns, top_x \in expectns, pdb_ids \in pdb_id_lists :
          ret = Call("extract_analysis_data",
                     [expectn |-> expectn, top_x |-> top_x, pdb_ids |-> pdb_ids],
                     NoExc, StartOfRun)

\* assert(top_x <= expectn)
SanityCheck ==
    /\ ret.val.pc = "sanity"
    /\ ret' = IF ret.args.top_x <= ret.args.expectn
              THEN [ret EXCEPT !.op = "sanity", !.val.pc = "loop"]
              ELSE [ret EXCEPT !.op = "sanity", !.exc = AssertionError,
                               !.val.pc = "aborted"]
    /\ UNCHANGED <<heap, loop_predictions, loop_prediction_map, sub, pre>>

\* One pass of the loop over pdb_ids, for what the extraction method and the
\* reference files give for the case.  An exception ends the run.
AnalyzeCase(details, rcsb_reference_matrix, rosetta_reference_matrix) ==
    /\ ret.val.pc = "loop"
    /\ ret.val.next <= Len(ret.args.pdb_ids)
    /\ \E c \in {analyze_case(ret.args.pdb_ids[ret.val.next], details,
                              rcsb_reference_matrix, rosetta_reference_matrix,
                              ret.args.expectn, ret.args.top_x)} :
          /\ pre' = Snapshot
          /\ heap' = c.heap
          /\ loop_predictions' = c.loop_predictions
          /\ loop_prediction_map' = c.loop_prediction_map
          /\ sub' = c.top_x_set
          /\ ret' = IF c.exc # NoExc
                    THEN [ret EXCEPT !.op = "case", !.exc = c.exc,
                                     !.val.pc = "aborted", !.val.case = c]
                    ELSE [ret EXCEPT !.op = "case",
                                     !.val.next = @ + 1,
                                     !.val.csv_file = Append(@, SummaryRow(c, ret.args.expectn)),
                                     !.val.plot_input = @ \o PlotRows(c),
                                     !.val.by_top_x = ByTopX(@, c),
                                     !.val.case = c]

\* After the loop: the median column, then the three write_file calls.
WriteFiles ==
    /\ ret.val.pc = "loop"
    /\ ret.val.next > Len(ret.args.pdb_ids)
    /\ LET m == median_rows(ret.val.by_top_x, ret.args.pdb_ids)
       IN ret' = IF m.exc # NoExc
                 THEN [ret EXCEPT !.op = "write", !.exc = m.exc, !.val.pc = "aborted"]
                 ELSE [ret EXCEPT !.op = "write", !.val.pc = "done",
                                  !.val.plot_input = @ \o m.rows,
                                  !.val.written = <<ret.val.csv_file, ret.val.csv_file,
                                                    ret.val.plot_input \o m.rows>>]
    /\ UNCHANGED <<heap, loop_predictions, loop_prediction_map, sub, pre>>

\* What an extraction method can return for a case: up to maxn predictions,
\* found in ascending or descending order of their ids.
Details(maxn, scores, matrices) ==
    UNION {{[i \in 1..n |->
                [id |-> IF asc THEN i ELSE n + 1 - i, score |-> s[i],
                 predicted_structure |-> Str(1),
                 pdb_loop_residue_matrix |-> m[i]]] :
              s \in [1..n -> scores], m \in [1..n -> matrices], asc \in BOOLEAN} :
           n \in 0..maxn}

---------------------------------------------------------------------------
(* One case, with every mix of scores and deviations: SpecCase *)

MaxDetails == 3    \* SpecCase: predictions extracted for the case, expectn, top_x

InitCase == InitRun({<<Str(1)>>}, 1..MaxDetails)

DoAnalyzeCase ==
    \E details \in Details(MaxDetails, Scores, {Mat(0), Mat(2)}),
       rosetta \in {Mat(0), Mat(4)} :
        AnalyzeCase(details, Mat(0), rosetta)

NextCase == SanityCheck \/ DoAnalyzeCase \/ WriteFiles

SpecCase == InitCase /\ [][NextCase]_vars

---------------------------------------------------------------------------
(* A run over two cases: SpecRun *)

MaxRunDetails == 2    \* SpecRun: predictions extracted for a case

InitRunOfCases ==
    InitRun({<<>>, <<Str(1), Str(2)>>, <<Str(1), Str(1)>>}, 1..(MaxRunDetails + 1))

DoAnalyzeRunCase ==
    \E details \in Details(MaxRunDetails, Scores, {None, Mat(2)}),
       rosetta \in {Mat(0), Mat(1)} :
        AnalyzeCase(details, Mat(0), rosetta)

NextRun == SanityCheck \/ DoAnalyzeRunCase \/ WriteFiles

SpecRun == InitRunOfCases /\ [][NextRun]_vars

TheCase == ret.val.case

CaseDone == ret.op = "case" /\ ret.exc = NoExc

Expectn == ret.args.expectn

\* The records of the case that truncate dropped.
Dropped == DOMAIN heap \ Range(loop_predictions)

\* C12: a case for which fewer than expectn predictions were extracted ends
\* the run: the run is aborted at that case, nothing is computed or recorded
\* for it, and no step follows an abort, so no later case is analysed.  A
\* case that is analysed to the end has exactly expectn records, none of
\* them with a higher score than a dropped one, and each summary row reports
\* expectn models.
C12_PopulationHardStop ==
    /\ [](ret.op = "case" =>
            /\ TheCase.extracted < Expectn =>
                  /\ ret.exc # NoExc
                  /\ ret.val.pc = "aborted"
                  /\ TheCase.curve = <<>> /\ TheCase.top_x_rmsd = None
                  /\ TheCase.closest_rmsd = None /\ TheCase.median = 0
                  /\ Len(ret.val.csv_file) = ret.val.next - 1
                  /\ ret.val.next <= Len(ret.args.pdb_ids)
            /\ ret.exc = NoExc =>
                  /\ Len(loop_predictions) = Expectn
                  /\ Cardinality(Range(loop_predictions)) = Expectn
                  /\ DOMAIN loop_prediction_map
                        = {heap[r].id : r \in Range(loop_predictions)}
                  /\ \A k \in Range(loop_predictions), d \in Dropped :
                        heap[k].score.v <= heap[d].score.v
                  /\ \A i \in DOMAIN ret.val.csv_file :
                        ret.val.csv_file[i].models = Expectn)
    /\ [][ret.val.pc # "aborted"]_vars

\* The second case of a run has too few predictions: the run stops there,
\* with the row of the first case only.
C12_Witness ==
    /\ ret.op = "case" /\ ret.exc = SystemExit
    /\ TheCase.extracted < Expectn
    /\ ret.val.next = 2
    /\ Len(ret.val.csv_file) = 1

\* A case that cannot pass its checks: too few predictions, a prediction
\* without a matrix, or a prediction whose deviations from the two
\* references differ.
FailsACheck(c, expectn) ==
    \/ c.extracted < expectn
    \/ \E r \in DOMAIN c.heap : c.heap[r].pdb_loop_residue_matrix = None
    \/ \E r \in DOMAIN c.heap :
          /\ c.heap[r].pdb_loop_residue_matrix # None
          /\ compute_rmsd_by_matrix(c.rcsb_reference_matrix,
                                    c.heap[r].pdb_loop_residue_matrix)
               # compute_rmsd_by_matrix(c.rosetta_reference_matrix,
                                        c.heap[r].pdb_loop_residue_matrix)

\* C13: a case that fails a check aborts the run with no row recorded for it
\* and no file written; a file is written only when every case has been
\* analysed without an exception, each with its row; after an exception
\* nothing is written, and nothing follows.
C13_NoOutputAfterFailure ==
    /\ []((ret.op = "case" /\ FailsACheck(TheCase, Expectn)) =>
            /\ ret.val.pc = "aborted"
            /\ ret.val.written = <<>>
            /\ Len(ret.val.csv_file) = ret.val.next - 1
            /\ Len(ret.val.plot_input) = (ret.val.next - 1) * Expectn)
    /\ [](ret.val.written # <<>> =>
            /\ ret.val.pc = "done" /\ ret.exc = NoExc
            /\ ret.val.next = Len(ret.args.pdb_ids) + 1
            /\ Len(ret.val.csv_file) = Len(ret.args.pdb_ids)
            /\ ret.val.written[1] = ret.val.csv_file
            /\ ret.val.written[3] = ret.val.plot_input)
    /\ [](ret.exc # NoExc => ret.val.pc = "aborted" /\ ret.val.written = <<>>)
    /\ [][ret.val.pc = "loop" \/ (ret.val.pc = "sanity" /\ ret.val.written = <<>>)]_vars

\* The files are written with the rows of two cases.
C13_Witness ==
    /\ ret.val.pc = "done"
    /\ Len(ret.val.written) = 3
    /\ Len(ret.val.written[1]) = 2
    /\ ret.val.written[1][1].pdb_id # ret.val.written[1][2].pdb_id

\* The first top_x records of the case in score order.
TopXRecords == Range(SubSeq(TheCase.by_score, 1, ret.args.top_x))

\* (rmsd, score) of a is not above that of b.
LexLe(a, b) == a.rmsd.v < b.rmsd.v \/ (a.rmsd.v = b.rmsd.v /\ a.score.v <= b.score.v)

\* C14: for a case analysed to the end, (top_x_rmsd, top_x_score) is the
\* least (rmsd, score) among the first top_x records in score order;
\* top_x_rmsd is at most the rmsd of the best-scoring record and top_x_score
\* at most the worst score; and no case ends at one of the two assertions.
C14_TopXMetric ==
    /\ ret.op = "case" =>
          TheCase.at \notin {"assert top_x_score", "assert top_x_rmsd"}
    /\ CaseDone =>
          /\ \E r \in TopXRecords :
                /\ heap[r].rmsd = TheCase.top_x_rmsd
                /\ heap[r].score = TheCase.top_x_score
                /\ \A q \in TopXRecords : LexLe(heap[r], heap[q])
          /\ TheCase.top_1_rmsd = heap[TheCase.by_score[1]].rmsd
          /\ TheCase.top_x_rmsd.v <= TheCase.top_1_rmsd.v
          /\ TheCase.worst_score = heap[TheCase.by_score[Len(TheCase.by_score)]].score
          /\ TheCase.top_x_score.v <= TheCase.worst_score.v

\* The top-X set holds a record as close as the closest of the set but with
\* a higher score, and a record further away.
C14_Witness ==
    /\ CaseDone
    /\ ret.args.top_x = 3
    /\ \E r \in TopXRecords :
          heap[r].rmsd = TheCase.top_x_rmsd /\ heap[r].score.v > TheCase.top_x_score.v
    /\ \E q \in TopXRecords : heap[q].rmsd.v > TheCase.top_x_rmsd.v

\* floor(n / 2)
FloorHalf(n) == CHOOSE m \in 0..n : 2 * m <= n /\ n < 2 * m + 2

\* C15: the median structure of a case is the record at zero-based index
\* floor(expectn / 2) of the set as sorted by score and truncated, and its
\* score is at least the best and at most the worst score.
C15_MedianRecord ==
    CaseDone =>
        /\ \A i \in 1..(Len(TheCase.by_score) - 1) :
              heap[TheCase.by_score[i]].score.v <= heap[TheCase.by_score[i + 1]].score.v
        /\ TheCase.median = TheCase.by_score[FloorHalf(Expectn) + 1]
        /\ TheCase.best = TheCase.by_score[1]
        /\ TheCase.worst = TheCase.by_score[Expectn]
        /\ TheCase.best_score.v <= heap[TheCase.median].score.v
        /\ heap[TheCase.median].score.v <= TheCase.worst_score.v
        /\ ret.val.csv_file[Len(ret.val.csv_file)].median_score = heap[TheCase.median].score

\* An even expectn, with the median structure scoring above the best one.
C15_Witness ==
    /\ CaseDone
    /\ Expectn = 2
    /\ TheCase.median = TheCase.by_score[2]
    /\ heap[TheCase.median].score.v > TheCase.best_score.v

\* The number of the first k records in score order with an rmsd below 1.0.
SubAngstromAmong(k) ==
    Cardinality({i \in 1..k : heap[TheCase.by_score[i]].rmsd.v < 10})

\* C17: the curve of a case has one value for each k in 1..expectn, the
\* percentage of the first k records in score order whose rmsd is strictly
\* below 1.0; the list is in the same order after the curve as before it and
\* holds the same records; the value at expectn is the percentage of the
\* whole set and the value at top_x that of the top-X set; and the rows of
\* the plot input carry these values.
C17_SubAngstromCurve ==
    CaseDone =>
        /\ Len(TheCase.curve) = Expectn
        /\ DOMAIN TheCase.curve = 1..Len(TheCase.by_score)
        /\ \A k \in 1..Expectn :
              TheCase.curve[k] = [num |-> 100 * SubAngstromAmong(k), den |-> k]
        /\ TheCase.after_curve = TheCase.by_score
        /\ Range(loop_predictions) = Range(TheCase.by_score)
        /\ TheCase.curve[Expectn] = TheCase.total_percent
        /\ TheCase.curve[ret.args.top_x] = TheCase.top_x_percent
        /\ \A k \in 1..Expectn :
              ret.val.plot_input[Len(ret.val.plot_input) - Expectn + k]
                 = [pdb_id |-> TheCase.pdb_id, x |-> k, percent |-> TheCase.curve[k]]

\* A curve that goes down and up again, over a record at exactly 1.0.
C17_Witness ==
    /\ CaseDone
    /\ Expectn = 3
    /\ TheCase.curve = <<[num |-> 100, den |-> 1], [num |-> 100, den |-> 2],
                         [num |-> 200, den |-> 3]>>
    /\ heap[TheCase.by_score[2]].rmsd = Num(10)

\* C18: for a case analysed to the end, closest_rmsd <= top_x_rmsd <=
\* top_1_rmsd, where closest_rmsd is the rmsd of the first record after the
\* sort by rmsd and the least rmsd of the expectn records, and
\* best_score <= top_x_score <= worst_score.
C18_StatisticsOrdered ==
    CaseDone =>
        /\ TheCase.closest_rmsd.v <= TheCase.top_x_rmsd.v
        /\ TheCase.top_x_rmsd.v <= TheCase.top_1_rmsd.v
        /\ Len(loop_predictions) = Expectn
        /\ TheCase.closest_rmsd = heap[loop_predictions[1]].rmsd
        /\ TheCase.closest_score = heap[loop_predictions[1]].score
        /\ \A r \in Range(loop_predictions) : TheCase.closest_rmsd.v <= heap[r].rmsd.v
        /\ TheCase.best_score.v <= TheCase.top_x_score.v
        /\ TheCase.top_x_score.v <= TheCase.worst_score.v

\* The closest record lies outside the top-X set, which holds nothing as
\* close, and the scores of the case differ.
C18_Witness ==
    /\ CaseDone
    /\ TheCase.closest_rmsd.v < TheCase.top_x_rmsd.v
    /\ TheCase.best_score.v < TheCase.worst_score.v
    /\ loop_predictions[1] \notin TopXRecords
    /\ Expectn = 3 /\ ret.args.top_x = 2

---------------------------------------------------------------------------
(* A slice kept beside the set it was taken from: SpecShare *)

MaxShareLen == 2    \* SpecShare: length of the list the slice is taken from
MaxCalls == 2       \* SpecShare: method calls after the slice was taken

\* A method of LoopPredictionSet called on the set s.
method(h, s, op) ==
    CASE op.name = "sort_by_score" ->
            LET r == list_sort(h, "score", s.loop_predictions)
            IN [exc |-> r.exc, heap |-> h, lps |-> [s EXCEPT !.loop_predictions = r.lst]]
      [] op.name = "sort_by_rmsd" ->
            LET r == list_sort(h, "rmsd", s.loop_predictions)
            IN [exc |-> r.exc, heap |-> h, lps |-> [s EXCEPT !.loop_predictions = r.lst]]
      [] op.name = "truncate" ->
            LET t == truncate(h, s.loop_predictions, s.loop_prediction_map, op.n)
            IN [exc |-> t.exc, heap |-> h,
                lps |-> [loop_predictions |-> t.loop_predictions,
                         loop_prediction_map |-> t.loop_prediction_map]]
      [] op.name = "add" -> add(h, s, op.id, op.score, None, None, None, op.matrix)
      [] op.name = "compute_rmsds" ->
            LET c == compute_rmsds(h, s.loop_predictions, op.ref)
            IN [exc |-> c.exc, heap |-> c.heap, lps |-> s]

Methods ==
    {[name |-> "sort_by_score"], [name |-> "sort_by_rmsd"],
     [name |-> "truncate", n |-> 1],
     [name |-> "add", id |-> MaxShareLen + 1, score |-> Num(0), matrix |-> Mat(0)],
     [name |-> "compute_rmsds", ref |-> Mat(0)]}

\* The state after  sub = loop_prediction_set[lo:hi].
InitShare ==
    \E n \in 0..MaxShareLen :
        \E sc \in [1..n -> Scores], m \in [1..n -> {Mat(0), Mat(2)}],
           lo \in 0..n, hi \in 0..n :
            LET h == [i \in 1..n |-> LoopPrediction(i, sc[i], None, None, None, m[i]).lp]
                s == from_list(h, [i \in 1..n |-> i])
                cut == getitem_slice(h, s.lps.loop_predictions, lo, hi)
            IN /\ heap = h
               /\ loop_predictions = s.lps.loop_predictions
               /\ loop_prediction_map = s.lps.loop_prediction_map
               /\ sub = cut.lps
               /\ pre = NoSnapshot
               /\ ret = Call("slice", <<lo, hi>>, cut.exc, [slice |-> EmptySet, calls |-> 0])

\* A method called on the set the slice was taken from.  The value of the
\* call keeps the slice as it was before, and the number of calls so far.
OnParent(op) ==
    /\ ret.val.calls < MaxCalls
    /\ \E m \in {method(heap, [loop_predictions |-> loop_predictions,
                              loop_prediction_map |-> loop_prediction_map], op)} :
          /\ pre' = Snapshot
          /\ heap' = m.heap
          /\ loop_predictions' = m.lps.loop_predictions
          /\ loop_prediction_map' = m.lps.loop_prediction_map
          /\ ret' = Call("on parent", op, m.exc,
                         [slice |-> sub, calls |-> ret.val.calls + 1])
          /\ UNCHANGED sub

\* A method called on the slice.
OnSlice(op) ==
    /\ ret.val.calls < MaxCalls
    /\ \E m \in {method(heap, sub, op)} :
          /\ pre' = Snapshot
          /\ heap' = m.heap
          /\ sub' = m.lps
          /\ ret' = Call("on slice", op, m.exc,
                         [slice |-> sub, calls |-> ret.val.calls + 1])
          /\ UNCHANGED <<loop_predictions, loop_prediction_map>>

DoOnParent == \E op \in Methods : OnParent(op)

DoOnSlice == \E op \in Methods : OnSlice(op)

NextShare == DoOnParent \/ DoOnSlice

SpecShare == InitShare /\ [][NextShare]_vars

\* Every record the list lst reaches holds the deviation from ref.
HoldsDeviations(h, lst, ref) ==
    \A i \in DOMAIN lst :
        h[lst[i]].rmsd = compute_rmsd_by_matrix(ref, h[lst[i]].pdb_loop_residue_matrix)

====
